---------------------------- MODULE Spec2Model ----------------------------
(***************************************************************************)
(* go-boilerplate: the logger wrapper (package logger), the repository     *)
(* adapter (package repository), the use case (package usecases) and main. *)
(*                                                                         *)
(* The process is modelled from main(): NewLogger, the deferred Sync, then *)
(* cmd.Execute, during which any exported operation of the packages may be *)
(* called (on any receiver, with any argument of the small input sets),    *)
(* then the ways the process ends.                                         *)
(*                                                                         *)
(* Go values: a pointer is <<>> (nil) or <<v>>; a string is a sequence of  *)
(* one-character strings; a slice is [nil, elems]; an int64 is four 16-bit *)
(* limbs, most significant first, in two's complement.                     *)
(***************************************************************************)
EXTENDS Integers, Sequences, FiniteSets, TLC

VARIABLES env, pc, proc, appLogger, out, zapSyncs, deferredSyncs, inits, repo, calls, ret

vars == <<env, pc, proc, appLogger, out, zapSyncs, deferredSyncs, inits, repo, calls, ret>>

\* Number of calls cmd.Execute makes before it returns.
MaxCalls == 2

-----------------------------------------------------------------------------
(* Go values *)

Nil == <<>>

Ref(v) == <<v>>

Deref(p) == p[1]

NilErr == "nil"

UpperChars == <<"A","B","C","D","E","F","G","H","I","J","K","L","M",
                "N","O","P","Q","R","S","T","U","V","W","X","Y","Z">>

LowerChars == <<"a","b","c","d","e","f","g","h","i","j","k","l","m",
                "n","o","p","q","r","s","t","u","v","w","x","y","z">>

\* unicode.ToLower on one ASCII character.
LowerChar(c) ==
    IF \E i \in DOMAIN UpperChars : UpperChars[i] = c
    THEN LowerChars[CHOOSE i \in DOMAIN UpperChars : UpperChars[i] = c]
    ELSE c

\* strings.ToLower
ToLower(s) == [i \in DOMAIN s |-> LowerChar(s[i])]

-----------------------------------------------------------------------------
(* The environment and the Config values the operations are called with *)

LogLevelEnvs ==
    { <<>>,
      <<"d","e","b","u","g">>, <<"D","E","B","U","G">>,
      <<"i","n","f","o">>, <<"W","a","r","n">>,
      <<"e","r","r","o","r">>, <<"F","a","t","a","l">>,
      <<"p","a","n","i","c">>,
      <<"w","a","r","n","i","n","g">> }

DevModeEnvs ==
    { <<>>, <<"t","r","u","e">>, <<"T","r","U","e">>, <<"1">> }

\* Config.Output: nil, or a WriteSyncer of the caller's.
Outputs == {Nil, Ref("buf")}

CallerSkips == {0, 2}

Configs ==
    [IsDevelopment : BOOLEAN, Output : Outputs, CallerSkip : CallerSkips]

\* logger.Config{} of main.
ZeroConfig == [IsDevelopment |-> FALSE, Output |-> Nil, CallerSkip |-> 0]

Sinks == {"stdout", "buf"}

-----------------------------------------------------------------------------
(* zapcore levels, in order *)

Levels == <<"debug", "info", "warn", "error", "dpanic", "panic", "fatal">>

Rank(lvl) == CHOOSE i \in DOMAIN Levels : Levels[i] = lvl

\* zapcore.Level.Enabled of the core built by zapcore.NewCore(encoder, output, logLevel)
Enabled(coreLevel, lvl) == Rank(lvl) >= Rank(coreLevel)


-----------------------------------------------------------------------------
(* package logger *)

\* ResolveLevel with the switch on os.Getenv("LOG_LEVEL") itself.
ResolveLevel_CaseSensitive(envLogLevel) ==
    LET v == envLogLevel IN
    CASE v = <<"d","e","b","u","g">> -> [level |-> "debug", warned |-> FALSE]
      [] v = <<"i","n","f","o">>     -> [level |-> "info",  warned |-> FALSE]
      [] v = <<"w","a","r","n">>     -> [level |-> "warn",  warned |-> FALSE]
      [] v = <<"e","r","r","o","r">> -> [level |-> "error", warned |-> FALSE]
      [] v = <<"f","a","t","a","l">> -> [level |-> "fatal", warned |-> FALSE]
      [] v = <<"p","a","n","i","c">> -> [level |-> "panic", warned |-> FALSE]
      [] OTHER                       -> [level |-> "info",  warned |-> TRUE]

\* NewLogger, the switch on strings.ToLower(os.Getenv("LOG_LEVEL")):
\* the level, and whether the default branch printed its warning.
ResolveLevel(envLogLevel) ==
    LET v == ToLower(envLogLevel) IN
    CASE v = <<"d","e","b","u","g">> -> [level |-> "debug", warned |-> FALSE]
      [] v = <<"i","n","f","o">>     -> [level |-> "info",  warned |-> FALSE]
      [] v = <<"w","a","r","n">>     -> [level |-> "warn",  warned |-> FALSE]
      [] v = <<"e","r","r","o","r">> -> [level |-> "error", warned |-> FALSE]
      [] v = <<"f","a","t","a","l">> -> [level |-> "fatal", warned |-> FALSE]
      [] v = <<"p","a","n","i","c">> -> [level |-> "panic", warned |-> FALSE]
      [] OTHER                       -> [level |-> "info",  warned |-> TRUE]

\* ResolveDevelopmentMode comparing os.Getenv("DEV_MODE") itself with "true".
ResolveDevelopmentMode_CaseSensitive(cfg, envDevMode) ==
    IF ~cfg.IsDevelopment
    THEN envDevMode = <<"t","r","u","e">>
    ELSE cfg.IsDevelopment

\* NewLogger, isDevelopmentMode
ResolveDevelopmentMode(cfg, envDevMode) ==
    IF ~cfg.IsDevelopment
    THEN ToLower(envDevMode) = <<"t","r","u","e">>
    ELSE cfg.IsDevelopment

\* NewLogger, output
ResolveOutput(cfg) ==
    IF cfg.Output = Nil THEN "stdout" ELSE Deref(cfg.Output)

\* NewLogger, encoder
ResolveEncoder(isDevelopmentMode) ==
    IF isDevelopmentMode THEN "console" ELSE "json"

\* NewLogger, callerSkip
ResolveCallerSkip(cfg) ==
    IF cfg.CallerSkip <= 0 THEN 1 ELSE cfg.CallerSkip

LogRecord(core, lvl, msg) ==
    [kind |-> "log", lvl |-> lvl, enc |-> core.enc, msg |-> msg]

\* fmt.Printf of the default branch of the level switch
InvalidLevelWarning ==
    [kind |-> "print", lvl |-> "none", enc |-> "raw", msg |-> "invalid level, using info"]

\* A call of the SugaredLogger at lvl: the record is written when the core's
\* level enables it; a panic-level call then panics and a fatal-level call
\* then calls os.Exit(1), written or not.
SugarLog(sugar, lvl, msg) ==
    LET core == Deref(sugar) IN
    [ outcome |-> CASE lvl = "panic" -> "panic"
                    [] lvl = "fatal" -> "exit"
                    [] OTHER         -> "returned",
      sink    |-> core.sink,
      lines   |-> IF Enabled(core.level, lvl)
                  THEN <<LogRecord(core, lvl, msg)>>
                  ELSE <<>> ]

\* StartupLines with the mode reported at info level.
StartupLines_ModeAtInfo(sugar, isDevelopmentMode) ==
    SugarLog(sugar, "info", "Logger successfully initialized.").lines
    \o (IF isDevelopmentMode
        THEN SugarLog(sugar, "info", "Development mode ENABLED (console output).").lines
        ELSE SugarLog(sugar, "info", "Production mode ENABLED (JSON output).").lines)
    \o SugarLog(sugar, "debug", "Log level: %s").lines

\* The three log calls NewLogger makes on the logger it built.
StartupLines(sugar, isDevelopmentMode) ==
    SugarLog(sugar, "info", "Logger successfully initialized.").lines
    \o (IF isDevelopmentMode
        THEN SugarLog(sugar, "debug", "Development mode ENABLED (console output).").lines
        ELSE SugarLog(sugar, "debug", "Production mode ENABLED (JSON output).").lines)
    \o SugarLog(sugar, "debug", "Log level: %s").lines

NewLogger(cfg, e) ==
    LET lv == ResolveLevel(e.LOG_LEVEL)
        isDevelopmentMode == ResolveDevelopmentMode(cfg, e.DEV_MODE)
        zapLogger == [ level      |-> lv.level,
                       enc        |-> ResolveEncoder(isDevelopmentMode),
                       sink       |-> ResolveOutput(cfg),
                       callerSkip |-> ResolveCallerSkip(cfg) ]
        sugaredLogger == Ref(zapLogger)
    IN  [ l       |-> Ref([zap |-> Ref(zapLogger), sugar |-> sugaredLogger]),
          err     |-> NilErr,
          printed |-> IF lv.warned THEN <<InvalidLevelWarning>> ELSE <<>>,
          sink    |-> zapLogger.sink,
          lines   |-> StartupLines(sugaredLogger, isDevelopmentMode) ]

\* A method that returned at its guard.
NoOp == [outcome |-> "returned", sink |-> "stdout", lines |-> <<>>]

\* Sync whose guard tests only l == nil.
Sync_NoZapGuard(l, zapErr) ==
    IF l = Nil
    THEN [err |-> NilErr, zapCalled |-> FALSE]
    ELSE [err |-> zapErr, zapCalled |-> TRUE]

\* zapErr: what the underlying zap.Logger.Sync returns, when it is called.
Sync(l, zapErr) ==
    IF l = Nil \/ Deref(l).zap = Nil
    THEN [err |-> NilErr, zapCalled |-> FALSE]
    ELSE [err |-> zapErr, zapCalled |-> TRUE]

Debug(l) ==
    IF l = Nil \/ Deref(l).sugar = Nil THEN NoOp
    ELSE SugarLog(Deref(l).sugar, "debug", "args")

Debugf(l) ==
    IF l = Nil \/ Deref(l).sugar = Nil THEN NoOp
    ELSE SugarLog(Deref(l).sugar, "debug", "template")

Info(l) ==
    IF l = Nil \/ Deref(l).sugar = Nil THEN NoOp
    ELSE SugarLog(Deref(l).sugar, "info", "args")

Infof(l) ==
    IF l = Nil \/ Deref(l).sugar = Nil THEN NoOp
    ELSE SugarLog(Deref(l).sugar, "info", "template")

Warn(l) ==
    IF l = Nil \/ Deref(l).sugar = Nil THEN NoOp
    ELSE SugarLog(Deref(l).sugar, "warn", "args")

Warnf(l) ==
    IF l = Nil \/ Deref(l).sugar = Nil THEN NoOp
    ELSE SugarLog(Deref(l).sugar, "warn", "template")

Error(l) ==
    IF l = Nil \/ Deref(l).sugar = Nil THEN NoOp
    ELSE SugarLog(Deref(l).sugar, "error", "args")

\* Errorf whose guard tests only l == nil: the call on a nil sugar panics.
Errorf_NoSugarGuard(l) ==
    IF l = Nil THEN NoOp
    ELSE IF Deref(l).sugar = Nil
         THEN [outcome |-> "panic", sink |-> "stdout", lines |-> <<>>]
         ELSE SugarLog(Deref(l).sugar, "error", "template")

Errorf(l) ==
    IF l = Nil \/ Deref(l).sugar = Nil THEN NoOp
    ELSE SugarLog(Deref(l).sugar, "error", "template")

Fatal(l) ==
    IF l = Nil \/ Deref(l).sugar = Nil THEN NoOp
    ELSE SugarLog(Deref(l).sugar, "fatal", "args")

Fatalf(l) ==
    IF l = Nil \/ Deref(l).sugar = Nil THEN NoOp
    ELSE SugarLog(Deref(l).sugar, "fatal", "template")

Panic(l) ==
    IF l = Nil \/ Deref(l).sugar = Nil THEN NoOp
    ELSE SugarLog(Deref(l).sugar, "panic", "args")

Panicf(l) ==
    IF l = Nil \/ Deref(l).sugar = Nil THEN NoOp
    ELSE SugarLog(Deref(l).sugar, "panic", "template")

-----------------------------------------------------------------------------
(* package entity, package repository (port and adapter), package usecases *)

Zero64 == <<0, 0, 0, 0>>

One64 == <<0, 0, 0, 1>>

MinusOne64 == <<65535, 65535, 65535, 65535>>

MaxInt64 == <<32767, 65535, 65535, 65535>>

MinInt64 == <<32768, 0, 0, 0>>

Int64s == {Zero64, One64, MinusOne64, MaxInt64, MinInt64}

\* entity.MyObject{}: every field at its zero value.
ZeroMyObject == [ID |-> Zero64, Name |-> <<>>]

SomeMyObject == [ID |-> One64, Name |-> <<"a">>]

NilSlice == [nil |-> TRUE, elems |-> <<>>]

\* []entity.MyObject{}
EmptySlice == [nil |-> FALSE, elems |-> <<>>]

SomeSlice == [nil |-> FALSE, elems |-> <<SomeMyObject>>]

\* NewMyObjectRepository: a pointer to a struct with no fields.
NewMyObjectRepository == Ref(<<>>)

\* GetAllObjects that loads on its first call and remembers it.
MyObjectRepository_GetAllObjects_Caching(r) ==
    [ val  |-> IF r = NewMyObjectRepository THEN EmptySlice ELSE SomeSlice,
      err  |-> NilErr,
      repo |-> Ref(<<"loaded">>) ]

MyObjectRepository_GetAllObjects(r) ==
    [val |-> EmptySlice, err |-> NilErr, repo |-> r]

\* GetObjectByID that rejects ids that are not positive.
MyObjectRepository_GetObjectByID_NotFound(r, id) ==
    IF id = Zero64 \/ id[1] >= 32768
    THEN [val |-> ZeroMyObject, err |-> "ErrNotFound", repo |-> r]
    ELSE [val |-> ZeroMyObject, err |-> NilErr, repo |-> r]

MyObjectRepository_GetObjectByID(r, id) ==
    [val |-> ZeroMyObject, err |-> NilErr, repo |-> r]

\* The implementations of the port MyObjectRepository a use case is built
\* with: the adapter, and stubs.
AdapterPort ==
    [impl |-> "adapter", slice |-> EmptySlice, object |-> ZeroMyObject, err |-> NilErr]

\* A stub returns (slice, err) from GetAllObjects and (object, err) from
\* GetObjectByID.
StubPorts ==
    [ impl   : {"stub"},
      slice  : {NilSlice, EmptySlice, SomeSlice},
      object : {ZeroMyObject, SomeMyObject},
      err    : {NilErr, "ErrStorage"} ]

Ports == {AdapterPort} \cup StubPorts

\* uc.myObjectRepo.GetAllObjects(), dispatched on the injected implementation
Port_GetAllObjects(port, r) ==
    IF port.impl = "adapter"
    THEN MyObjectRepository_GetAllObjects(r)
    ELSE [val |-> port.slice, err |-> port.err, repo |-> r]

\* uc.myObjectRepo.GetObjectByID(id)
Port_GetObjectByID(port, r, id) ==
    IF port.impl = "adapter"
    THEN MyObjectRepository_GetObjectByID(r, id)
    ELSE [val |-> port.object, err |-> port.err, repo |-> r]

NewMyObjectUseCase(myObjectRepo) == [myObjectRepo |-> myObjectRepo]

\* GetAllObjects that returns the port's value and drops its error.
MyObjectUseCase_GetAllObjects_DropsError(uc, r) ==
    LET got == Port_GetAllObjects(uc.myObjectRepo, r) IN
    [val |-> got.val, err |-> NilErr, repo |-> got.repo, got |-> got]

\* "got" is what the port returned, kept for the caller to compare.
MyObjectUseCase_GetAllObjects(uc, r) ==
    LET got == Port_GetAllObjects(uc.myObjectRepo, r) IN
    IF got.err # NilErr
    THEN [val |-> NilSlice, err |-> got.err, repo |-> got.repo, got |-> got]
    ELSE [val |-> got.val, err |-> NilErr, repo |-> got.repo, got |-> got]

MyObjectUseCase_GetObjectByID(uc, r, id) ==
    LET got == Port_GetObjectByID(uc.myObjectRepo, r, id) IN
    IF got.err # NilErr
    THEN [val |-> ZeroMyObject, err |-> got.err, repo |-> got.repo, got |-> got]
    ELSE [val |-> got.val, err |-> NilErr, repo |-> got.repo, got |-> got]

-----------------------------------------------------------------------------
(* The process: main, and the calls made while cmd.Execute runs *)

Envs == [LOG_LEVEL : LogLevelEnvs, DEV_MODE : DevModeEnvs]

Init ==
    /\ env \in Envs
    /\ pc = "start"
    /\ proc = "running"
    /\ appLogger = Nil
    /\ out = [s \in Sinks |-> <<>>]
    /\ zapSyncs = 0
    /\ deferredSyncs = 0
    /\ inits = 0
    /\ repo = NewMyObjectRepository
    /\ calls = 0
    /\ ret = [op |-> "none"]

\* What fmt.Printf printed goes to standard output, then the records the
\* logger wrote go to its sink.
Emit(o, printed, sink, lines) ==
    LET o1 == [o EXCEPT !["stdout"] = @ \o printed]
    IN  [o1 EXCEPT ![sink] = @ \o lines]

\* main: NewLogger(logger.Config{}), log.Fatalf on an error, defer Sync.
MainNewLogger ==
    /\ pc = "start"
    /\ LET r == NewLogger(ZeroConfig, env) IN
       IF r.err # NilErr
       THEN /\ pc' = "ended"
            /\ proc' = "exit1"
            /\ UNCHANGED <<appLogger, out, inits>>
            /\ ret' = [op |-> "log.Fatalf"]
       ELSE /\ pc' = "execute"
            /\ appLogger' = r.l
            /\ out' = Emit(out, r.printed, r.sink, r.lines)
            /\ inits' = inits + 1
            /\ ret' = [op |-> "NewLogger", arg |-> ZeroConfig, val |-> r.l, err |-> r.err]
            /\ UNCHANGED proc
    /\ UNCHANGED <<env, zapSyncs, deferredSyncs, repo, calls>>

\* A Logger value with no field set, and the values with one field set.
ZeroLogger == Ref([zap |-> Nil, sugar |-> Nil])

Receivers ==
    {Nil, ZeroLogger, appLogger,
     Ref([zap |-> Deref(appLogger).zap, sugar |-> Nil]),
     Ref([zap |-> Nil, sugar |-> Deref(appLogger).sugar])}
    \cup (IF ret.op = "NewLogger" THEN {ret.val} ELSE {})

InExecute == pc = "execute" /\ calls < MaxCalls

ExecNewLogger ==
    /\ InExecute
    /\ \E cfg \in Configs :
         LET r == NewLogger(cfg, env) IN
         /\ out' = Emit(out, r.printed, r.sink, r.lines)
         /\ ret' = [op |-> "NewLogger", arg |-> cfg, val |-> r.l, err |-> r.err]
    /\ calls' = calls + 1
    /\ UNCHANGED <<env, pc, proc, appLogger, zapSyncs, deferredSyncs, inits, repo>>

SyncErrs == {NilErr, "sync: invalid argument"}

ExecSync ==
    /\ InExecute
    /\ \E l \in Receivers, zapErr \in SyncErrs :
         LET r == Sync(l, zapErr) IN
         /\ zapSyncs' = IF r.zapCalled THEN zapSyncs + 1 ELSE zapSyncs
         /\ ret' = [op |-> "Sync", recv |-> l, err |-> r.err, outcome |-> "returned"]
    /\ calls' = calls + 1
    /\ UNCHANGED <<env, pc, proc, appLogger, out, deferredSyncs, inits, repo>>

\* A call of a levelled method: a panic unwinds to main, whose deferred call
\* then runs; os.Exit ends the process at once.
LoggerCall(op, l, r) ==
    /\ calls' = calls + 1
    /\ out' = Emit(out, <<>>, r.sink, r.lines)
    /\ ret' = [op |-> op, recv |-> l, outcome |-> r.outcome]
    /\ pc' = CASE r.outcome = "panic" -> "deferred"
               [] r.outcome = "exit"  -> "ended"
               [] OTHER               -> pc
    /\ proc' = CASE r.outcome = "panic" -> "panicking"
                 [] r.outcome = "exit"  -> "exit1"
                 [] OTHER               -> proc
    /\ UNCHANGED <<env, appLogger, zapSyncs, deferredSyncs, inits, repo>>

ExecDebug ==
    /\ InExecute
    /\ \E l \in Receivers : LoggerCall("Debug", l, Debug(l))

ExecDebugf ==
    /\ InExecute
    /\ \E l \in Receivers : LoggerCall("Debugf", l, Debugf(l))

ExecInfo ==
    /\ InExecute
    /\ \E l \in Receivers : LoggerCall("Info", l, Info(l))

ExecInfof ==
    /\ InExecute
    /\ \E l \in Receivers : LoggerCall("Infof", l, Infof(l))

ExecWarn ==
    /\ InExecute
    /\ \E l \in Receivers : LoggerCall("Warn", l, Warn(l))

ExecWarnf ==
    /\ InExecute
    /\ \E l \in Receivers : LoggerCall("Warnf", l, Warnf(l))

ExecError ==
    /\ InExecute
    /\ \E l \in Receivers : LoggerCall("Error", l, Error(l))

ExecErrorf ==
    /\ InExecute
    /\ \E l \in Receivers : LoggerCall("Errorf", l, Errorf(l))

ExecFatal ==
    /\ InExecute
    /\ \E l \in Receivers : LoggerCall("Fatal", l, Fatal(l))

ExecFatalf ==
    /\ InExecute
    /\ \E l \in Receivers : LoggerCall("Fatalf", l, Fatalf(l))

ExecPanic ==
    /\ InExecute
    /\ \E l \in Receivers : LoggerCall("Panic", l, Panic(l))

ExecPanicf ==
    /\ InExecute
    /\ \E l \in Receivers : LoggerCall("Panicf", l, Panicf(l))

ExecRepoGetAllObjects ==
    /\ InExecute
    /\ LET r == MyObjectRepository_GetAllObjects(repo) IN
         /\ repo' = r.repo
         /\ ret' = [op |-> "Repo.GetAllObjects", val |-> r.val, err |-> r.err]
    /\ calls' = calls + 1
    /\ UNCHANGED <<env, pc, proc, appLogger, out, zapSyncs, deferredSyncs, inits>>

ExecRepoGetObjectByID ==
    /\ InExecute
    /\ \E id \in Int64s :
         LET r == MyObjectRepository_GetObjectByID(repo, id) IN
         /\ repo' = r.repo
         /\ ret' = [op |-> "Repo.GetObjectByID", arg |-> id, val |-> r.val, err |-> r.err]
    /\ calls' = calls + 1
    /\ UNCHANGED <<env, pc, proc, appLogger, out, zapSyncs, deferredSyncs, inits>>

ExecUseCaseGetAllObjects ==
    /\ InExecute
    /\ \E port \in Ports :
         LET r == MyObjectUseCase_GetAllObjects(NewMyObjectUseCase(port), repo) IN
         /\ repo' = r.repo
         /\ ret' = [op |-> "UseCase.GetAllObjects", impl |-> port.impl,
                    val |-> r.val, err |-> r.err,
                    gotVal |-> r.got.val, gotErr |-> r.got.err]
    /\ calls' = calls + 1
    /\ UNCHANGED <<env, pc, proc, appLogger, out, zapSyncs, deferredSyncs, inits>>

ExecUseCaseGetObjectByID ==
    /\ InExecute
    /\ \E port \in Ports, id \in Int64s :
         LET r == MyObjectUseCase_GetObjectByID(NewMyObjectUseCase(port), repo, id) IN
         /\ repo' = r.repo
         /\ ret' = [op |-> "UseCase.GetObjectByID", impl |-> port.impl, arg |-> id,
                    val |-> r.val, err |-> r.err,
                    gotVal |-> r.got.val, gotErr |-> r.got.err]
    /\ calls' = calls + 1
    /\ UNCHANGED <<env, pc, proc, appLogger, out, zapSyncs, deferredSyncs, inits>>

\* cmd.Execute returns to main, which returns: its deferred call is due.
ExecuteReturn ==
    /\ pc = "execute"
    /\ pc' = "deferred"
    /\ ret' = [op |-> "Execute"]
    /\ UNCHANGED <<env, proc, appLogger, out, zapSyncs, deferredSyncs, inits, repo, calls>>

\* defer appLogger.Sync(), run when main returns or panics; then the process
\* ends: status 0 after a return, status 2 after a panic.
RunDeferredSync ==
    /\ pc = "deferred"
    /\ \E zapErr \in SyncErrs :
         LET r == Sync(appLogger, zapErr) IN
         /\ zapSyncs' = IF r.zapCalled THEN zapSyncs + 1 ELSE zapSyncs
         /\ ret' = [op |-> "Sync", recv |-> appLogger, err |-> r.err, outcome |-> "returned"]
    /\ deferredSyncs' = deferredSyncs + 1
    /\ pc' = "ended"
    /\ proc' = IF proc = "panicking" THEN "exit2" ELSE "exit0"
    /\ UNCHANGED <<env, appLogger, out, inits, repo, calls>>

Next ==
    \/ MainNewLogger
    \/ ExecNewLogger
    \/ ExecSync
    \/ ExecDebug
    \/ ExecDebugf
    \/ ExecInfo
    \/ ExecInfof
    \/ ExecWarn
    \/ ExecWarnf
    \/ ExecError
    \/ ExecErrorf
    \/ ExecFatal
    \/ ExecFatalf
    \/ ExecPanic
    \/ ExecPanicf
    \/ ExecRepoGetAllObjects
    \/ ExecRepoGetObjectByID
    \/ ExecUseCaseGetAllObjects
    \/ ExecUseCaseGetObjectByID
    \/ ExecuteReturn
    \/ RunDeferredSync

Spec == Init /\ [][Next]_vars

-----------------------------------------------------------------------------
(* Properties *)

\* A step in which an operation was called: ret' is what it returned.
CallStep == calls' # calls \/ pc' # pc

UseCaseOps == {"UseCase.GetAllObjects", "UseCase.GetObjectByID"}

NilSafeOps == {"Debug", "Debugf", "Info", "Infof", "Warn", "Warnf", "Error", "Errorf"}

NumLogs(lines) == Cardinality({i \in DOMAIN lines : lines[i].kind = "log"})

\* Log records written to the sinks by the step.
LogLinesAdded ==
    (NumLogs(out'["stdout"]) - NumLogs(out["stdout"]))
    + (NumLogs(out'["buf"]) - NumLogs(out["buf"]))

\* Lines of any kind written to the outputs by the step.
LinesAdded ==
    (Len(out'["stdout"]) - Len(out["stdout"])) + (Len(out'["buf"]) - Len(out["buf"]))

BuiltLevel(l) == Deref(Deref(l).zap).level

BuiltEncoding(l) == Deref(Deref(l).zap).enc

\* C1, as claimed: the use case returns exactly the pair (value, error) the
\* injected port returned, on success and on failure (two slices with the
\* same elements count as the same value here).
C1_SamePair ==
    /\ ret.op = "UseCase.GetAllObjects" =>
         (ret.val.elems = ret.gotVal.elems /\ ret.err = ret.gotErr)
    /\ ret.op = "UseCase.GetObjectByID" =>
         (ret.val = ret.gotVal /\ ret.err = ret.gotErr)

\* C1, amended: the use case returns the port's error unchanged; with a nil
\* error it returns the port's value unchanged, and with a non-nil error it
\* returns the zero value (a nil slice, a zero MyObject) in place of the
\* port's value.
C1_ErrorUnchangedValueOnSuccess ==
    ret.op \in UseCaseOps =>
        /\ ret.err = ret.gotErr
        /\ ret.gotErr = NilErr => ret.val = ret.gotVal
        /\ ret.gotErr # NilErr =>
             ret.val = (IF ret.op = "UseCase.GetAllObjects" THEN NilSlice ELSE ZeroMyObject)

C1_Witness ==
    /\ ret.op = "UseCase.GetAllObjects"
    /\ ret.gotErr = "ErrStorage"
    /\ ret.gotVal = SomeSlice
    /\ ret.val = NilSlice

\* C2: Fatal and Fatalf on a nil Logger, or one whose sugar is nil, end the
\* process, and Panic and Panicf on one raise a panic: none returns normally.
C2_FatalPanicTakeEffect ==
    /\ (ret.op \in {"Fatal", "Fatalf"} /\ (ret.recv = Nil \/ Deref(ret.recv).sugar = Nil))
         => ret.outcome = "exit"
    /\ (ret.op \in {"Panic", "Panicf"} /\ (ret.recv = Nil \/ Deref(ret.recv).sugar = Nil))
         => ret.outcome = "panic"

\* C3: every call of Debug, Debugf, Info, Infof, Warn, Warnf, Error, Errorf
\* on a Logger that is nil or whose sugar is nil returns normally, writes no
\* record to any output and leaves the process running.
C3_NilSafeLogging ==
    [][ ( /\ CallStep
          /\ ret'.op \in NilSafeOps
          /\ (ret'.recv = Nil \/ Deref(ret'.recv).sugar = Nil) )
        => ( /\ ret'.outcome = "returned"
             /\ out' = out
             /\ pc' = pc
             /\ proc' = proc ) ]_vars

C3_Witness ==
    /\ calls = 2
    /\ ret.op = "Warn"
    /\ ret.recv = ZeroLogger
    /\ out["buf"] = <<>>

\* C4: Sync on a nil Logger, or on one whose zap is nil, returns a nil error,
\* does not call the underlying Sync and does not panic.
C4_NilSafeSync ==
    [][ ( /\ CallStep
          /\ ret'.op = "Sync"
          /\ (ret'.recv = Nil \/ Deref(ret'.recv).zap = Nil) )
        => ( /\ ret'.err = NilErr
             /\ ret'.outcome = "returned"
             /\ zapSyncs' = zapSyncs
             /\ proc' = proc ) ]_vars

C4_Witness ==
    /\ ret.op = "Sync"
    /\ ret.recv # Nil
    /\ Deref(ret.recv).zap = Nil
    /\ Deref(ret.recv).sugar # Nil
    /\ ret.err = NilErr

\* The level names NewLogger recognises, and the level of each.
RecognisedLevels ==
    { <<<<"d","e","b","u","g">>, "debug">>, <<<<"i","n","f","o">>, "info">>,
      <<<<"w","a","r","n">>, "warn">>, <<<<"e","r","r","o","r">>, "error">>,
      <<<<"f","a","t","a","l">>, "fatal">>, <<<<"p","a","n","i","c">>, "panic">> }

\* C5: for every Config and every LOG_LEVEL, the logger NewLogger returns has
\* the level the lower-cased LOG_LEVEL names when it is one of debug, info,
\* warn, error, fatal, panic, and the level info for every other value, the
\* empty one included.
C5_LevelResolution ==
    ret.op = "NewLogger" =>
        LET lower == ToLower(env.LOG_LEVEL) IN
        /\ \A p \in RecognisedLevels : lower = p[1] => BuiltLevel(ret.val) = p[2]
        /\ (\A p \in RecognisedLevels : lower # p[1]) => BuiltLevel(ret.val) = "info"

C5_Witness ==
    /\ ret.op = "NewLogger"
    /\ ret.arg.Output # Nil
    /\ env.LOG_LEVEL = <<"F","a","t","a","l">>
    /\ BuiltLevel(ret.val) = "fatal"

C7_TwoStartupLines ==
    [][ (CallStep /\ ret'.op = "NewLogger") => LinesAdded = 2 ]_vars

\* C7, amended: NewLogger makes three log calls (initialization at info,
\* the mode at debug, the level at debug), so before it returns it writes
\* three log lines to the sink when the resolved level is debug, one (the
\* initialization line) when it is info, and none when it is warn, error,
\* fatal or panic, in either mode; all of them go to the logger's own sink.
C7_StartupLinesByLevel ==
    [][ (CallStep /\ ret'.op = "NewLogger") =>
          LET lvl  == BuiltLevel(ret'.val)
              sink == Deref(Deref(ret'.val).zap).sink
          IN  /\ LogLinesAdded = (CASE lvl = "debug" -> 3
                                    [] lvl = "info"  -> 1
                                    [] OTHER         -> 0)
              /\ LogLinesAdded = NumLogs(out'[sink]) - NumLogs(out[sink]) ]_vars

C7_Witness ==
    /\ pc = "execute"
    /\ calls = 0
    /\ ret.op = "NewLogger"
    /\ BuiltLevel(appLogger) = "debug"
    /\ NumLogs(out["stdout"]) = 3

\* C8: for every int64 id (zero, negative, the maximum included) and after
\* any earlier calls, the adapter's GetObjectByID returns the zero MyObject
\* and a nil error.
C8_GetObjectByIDZero ==
    ret.op = "Repo.GetObjectByID" => (ret.val = ZeroMyObject /\ ret.err = NilErr)

C8_Witness ==
    /\ calls = 2
    /\ ret.op = "Repo.GetObjectByID"
    /\ ret.arg = MaxInt64
    /\ ret.val = ZeroMyObject

\* C9: every call of the adapter's GetAllObjects, after any earlier calls,
\* returns an empty sequence and a nil error and changes neither the
\* adapter nor any output.
C9_GetAllObjectsPure ==
    [][ (CallStep /\ ret'.op = "Repo.GetAllObjects")
        => ( /\ ret'.val.elems = <<>>
             /\ ret'.err = NilErr
             /\ repo' = repo
             /\ out' = out
             /\ proc' = proc ) ]_vars

C9_Witness ==
    /\ calls = 2
    /\ ret.op = "Repo.GetAllObjects"
    /\ ret.val.elems = <<>>
    /\ repo = NewMyObjectRepository

\* C10: whenever the process has ended after NewLogger succeeded, the logger
\* was initialised exactly once and main's deferred Sync was invoked on it,
\* whichever way the process ended (return, panic, fatal-level exit).
C10_SyncOnEveryExit ==
    (pc = "ended" /\ appLogger # Nil) => (inits = 1 /\ deferredSyncs = 1)

=============================================================================
